---- MODULE Spec2Model ----
(***************************************************************************)
(* A model of ai-shell (src/ai.py): the single-shot review menu of main,   *)
(* the interactive loop of interactive_mode with its session store, the    *)
(* shell-buffer bridge and the zsh integration installer.                  *)
(*                                                                         *)
(* Texts (operator lines, commands, file names, the buffer file) are       *)
(* sequences of one-character strings.  The shell configuration file is a  *)
(* sequence of fragments in which the marker string is a fragment of its   *)
(* own, so that "marker in content" is membership of that fragment.        *)
(***************************************************************************)
EXTENDS Integers, Sequences, FiniteSets, TLC

\* ------------------------------------------------------------------ bounds
\* Process invocations of the program that one behaviour follows.
MaxRuns == 3
\* Input lines the interactive loop reads in one behaviour.
MaxLines == 2

\* ------------------------------------------------------------------- texts
Last(s) == s[Len(s)]

IsPrefix(p, s) == Len(p) <= Len(s) /\ SubSeq(s, 1, Len(p)) = p

IsSuffix(p, s) == Len(p) <= Len(s) /\ SubSeq(s, Len(s) - Len(p) + 1, Len(s)) = p

\* str.lower() on the letters the operator lines use
LowerChar(c) ==
    CASE c = "A" -> "a" [] c = "D" -> "d" [] c = "E" -> "e" [] c = "H" -> "h"
      [] c = "I" -> "i" [] c = "L" -> "l" [] c = "O" -> "o" [] c = "P" -> "p"
      [] c = "Q" -> "q" [] c = "R" -> "r" [] c = "S" -> "s" [] c = "T" -> "t"
      [] c = "U" -> "u" [] c = "V" -> "v" [] c = "X" -> "x" [] c = "Y" -> "y"
      [] c = "B" -> "b" [] c = "C" -> "c" [] c = "N" -> "n" [] c = "Z" -> "z"
      [] OTHER -> c

Lower(s) == [i \in 1..Len(s) |-> LowerChar(s[i])]

IsSpace(c) == c \in {" ", "\t", "\n"}

\* index of the first character of s at or after i that is (space = TRUE) or is
\* not (space = FALSE) whitespace; Len(s) + 1 when there is none
RECURSIVE Scan(_, _, _)
Scan(s, i, space) ==
    IF i > Len(s) THEN Len(s) + 1
    ELSE IF IsSpace(s[i]) = space THEN i
    ELSE Scan(s, i + 1, space)

\* str.strip()
RECURSIVE RStrip(_)
RStrip(s) == IF s # <<>> /\ IsSpace(Last(s)) THEN RStrip(SubSeq(s, 1, Len(s) - 1)) ELSE s

Strip(s) == RStrip(SubSeq(s, Scan(s, 1, FALSE), Len(s)))

\* str.split(maxsplit=1): the first word, then the rest of the line from the
\* next non-blank character on (its trailing blanks kept), if there is one
Split1(s) ==
    LET b == Scan(s, 1, FALSE)
        e == Scan(s, b, TRUE)
        r == Scan(s, e, FALSE)
    IN  IF b > Len(s) THEN <<>>
        ELSE IF r > Len(s) THEN <<SubSeq(s, b, e - 1)>>
        ELSE <<SubSeq(s, b, e - 1), SubSeq(s, r, Len(s))>>

DotYaml == <<".", "y", "a", "m", "l">>

\* "if not session_name.endswith('.yaml'): session_name += '.yaml'"
WithExtension(name) == IF IsSuffix(DotYaml, name) THEN name ELSE name \o DotYaml

\* ------------------------------------------------------------ the operator
Save == <<"s", "a", "v", "e">>
Load == <<"l", "o", "a", "d">>
NameA == <<"a">>
NameB == <<"b">>

\* generation prompts the operator types (df on the command line, ps and no
\* in the interactive loop)
PromptDf == <<"d", "f">>
PromptPs == <<"p", "s">>
\* a prompt that is a YAML boolean when it is written unquoted
PromptNo == <<"n", "o">>

\* lines that begin with the letters of save / load without being them
SavedA == <<"s", "a", "v", "e", "d", " ", "a">>
LoadavgB == <<"l", "o", "a", "d", "a", "v", "g", " ", "b">>

Lines ==
    { <<"h", "e", "l", "p">>, <<"E", "x", "i", "t">>, <<"q", "u", "i", "t">>,
      Save, Save \o <<" ">> \o NameA,
      Load, Load \o <<" ">> \o NameA, Load \o <<" ">> \o NameB,
      <<"l", "i", "s", "t">>, <<"h", "i", "s", "t", "o", "r", "y">>,
      <<"c", "l", "e", "a", "r">>, <<" ">>,
      SavedA, LoadavgB, PromptPs, PromptNo }

\* what the operator types at the single-shot menus, at the interactive menus
\* and at a y/n question
MainAnswers == { <<"y">>, <<"Y">>, <<"n">>, <<"e">>, <<"c">>, <<"b">>, <<"z">> }
InteractiveAnswers == { <<"e">>, <<"c">>, <<"b">>, <<"r">>, <<"R">>, <<"s">>, <<"z">> }
YesNo == { <<"y">>, <<"Y">>, <<"n">> }

\* commands the generation backend answers with, and what the operator makes
\* of a command in the line editor
CmdLs == <<"l", "s">>
CmdDu == <<"d", "u">>
Generated == { CmdLs }
EditedText == <<"l", "s", " ", "-", "l">>
\* no text (yet)
NoText == <<>>

\* ------------------------------------------------------------ Python values
\* None, and the value of a name that is not bound yet
PyNone == [py |-> "None"]
Unbound == [py |-> "unbound"]

\* a dict is a record of its keys; v[k] raises for None and for a missing key
HasKey(v, k) == "py" \notin DOMAIN v /\ k \in DOMAIN v

\* the Session structure of interactive_mode: a dict holding a commands list
\* and a metadata dict
IsSession(v) == HasKey(v, "commands") /\ HasKey(v, "metadata")

NewSession(t) == [commands |-> <<>>, metadata |-> [created_at |-> t, updated_at |-> t]]

CommandEntry(user_input, bash_command, t) ==
    [prompt |-> user_input, command |-> bash_command, timestamp |-> t,
     executed |-> FALSE, output |-> PyNone]

\* SetLast writing to the first record: current_session['commands'][0][field] = value
SetLast_First(session, field, value) ==
    [session EXCEPT !.commands[1] = [session.commands[1] EXCEPT ![field] = value]]

\* current_session['commands'][-1][field] = value
SetLast(session, field, value) ==
    [session EXCEPT !.commands[Len(session.commands)] =
        [session.commands[Len(session.commands)] EXCEPT ![field] = value]]

\* ------------------------------------------------------------- YAML files
\* What the YAML resolver makes of a plain (unquoted) scalar with this text.
ImplicitTag(text) ==
    IF text \in {<<>>, <<"~">>, <<"n", "u", "l", "l">>} THEN "null"
    ELSE IF text \in {<<"y", "e", "s">>, <<"n", "o">>, <<"o", "n">>, <<"o", "f", "f">>,
                      <<"t", "r", "u", "e">>, <<"f", "a", "l", "s", "e">>} THEN "bool"
    ELSE "str"

\* A string is emitted plain only if a plain scalar reads back as that string:
\* no implicit non-string tag, no leading or trailing blank.
PlainAllowed(text) ==
    /\ ImplicitTag(text) = "str"
    /\ ~IsSpace(text[1])
    /\ ~IsSpace(Last(text))

\* DumpStr emitting every string unquoted
DumpStr_AlwaysPlain(text) == [style |-> "plain", text |-> text]

DumpStr(text) == [style |-> IF PlainAllowed(text) THEN "plain" ELSE "quoted", text |-> text]

\* an isoformat() string looks like a YAML timestamp, so it is emitted quoted
DumpTime(t) == [style |-> "quoted", text |-> t]

DumpEntry(e) ==
    [prompt |-> DumpStr(e.prompt), command |-> DumpStr(e.command),
     timestamp |-> DumpTime(e.timestamp),
     executed |-> [style |-> "plain", text |-> IF e.executed THEN "true" ELSE "false"],
     output |-> [style |-> "plain", text |-> "null"]]

DumpValue(key, value) ==
    IF key = "commands" THEN [i \in 1..Len(value) |-> DumpEntry(value[i])]
    ELSE [created_at |-> DumpTime(value.created_at), updated_at |-> DumpTime(value.updated_at)]

\* yaml.dump(session_data, f, default_flow_style=False) of a dict
Dump(session_data) ==
    [kind |-> "yaml", doc |-> [k \in DOMAIN session_data |-> DumpValue(k, session_data[k])]]

\* a quoted scalar is a string; a plain one is what the resolver makes of it: a
\* string, or a value of another type, written here as its type ahead of its
\* text so that it differs from every string
LoadScalar(n) ==
    IF n.style = "quoted" \/ ImplicitTag(n.text) = "str" THEN n.text
    ELSE <<ImplicitTag(n.text)>> \o n.text

LoadEntry(n) ==
    [prompt |-> LoadScalar(n.prompt), command |-> LoadScalar(n.command),
     timestamp |-> n.timestamp.text,
     executed |-> (n.executed.text = "true"), output |-> PyNone]

LoadValue(key, node) ==
    IF key = "commands" THEN [i \in 1..Len(node) |-> LoadEntry(node[i])]
    ELSE [created_at |-> node.created_at.text, updated_at |-> node.updated_at.text]

\* yaml.safe_load of a file that parses: an empty file is None, a mapping is a dict
SafeLoad(content) ==
    IF content.kind = "empty" THEN PyNone
    ELSE [k \in DOMAIN content.doc |-> LoadValue(k, content.doc[k])]

EmptyFile == [kind |-> "empty"]
\* text that is not YAML: safe_load raises
GarbageFile == [kind |-> "garbage"]

IoOutcomes == {"ok", "fails"}

\* os.path.join(HISTORY_DIR, session_name): the directory is fixed, the name is the path
SessionPath(session_name) == session_name

\* strftime("%Y%m%d_%H%M%S") of the clock reading
Digit(d) == <<"0", "1", "2", "3", "4", "5", "6", "7", "8", "9">>[d + 1]

Stamp(t) == <<Digit((t \div 10) % 10), Digit(t % 10)>>

AutoName(t) == <<"s", "e", "s", "s", "i", "o", "n", "_">> \o Stamp(t)

\* save_session returning the path without writing the file
save_session_WritesNothing(files, session_data, session_name, t, io) ==
    LET name == IF session_name = NoText THEN AutoName(t) ELSE session_name
    IN  [raised |-> io = "fails", path |-> SessionPath(WithExtension(name)), files |-> files]

\* save_session: [raised, path, files]; "if not session_name" holds of None and
\* of the empty text alike, and both are NoText here
save_session(files, session_data, session_name, t, io) ==
    LET name == IF session_name = NoText THEN AutoName(t) ELSE session_name
        session_path == SessionPath(WithExtension(name))
    IN  IF io = "fails"
        THEN [raised |-> TRUE, path |-> session_path, files |-> files]
        ELSE [raised |-> FALSE, path |-> session_path,
              files |-> [p \in DOMAIN files \cup {session_path} |->
                            IF p = session_path THEN Dump(session_data) ELSE files[p]]]

\* load_session: [raised, value]
load_session(files, session_path, io) ==
    IF session_path \notin DOMAIN files \/ io = "fails" \/ files[session_path].kind = "garbage"
    THEN [raised |-> TRUE, value |-> PyNone]
    ELSE [raised |-> FALSE, value |-> SafeLoad(files[session_path])]

\* --------------------------------------------------- external collaborators
ExitCodes == {"zero", "nonzero"}

\* ANTHROPIC_API_KEY in the environment: not set, set to the empty string, set
\* to a key
ApiKeys ==
    { [set |-> FALSE, value |-> <<>>], [set |-> TRUE, value |-> <<>>],
      [set |-> TRUE, value |-> <<"k">>] }

\* "if not api_key" of os.environ.get("ANTHROPIC_API_KEY")
NoCredential(key) == ~key.set \/ key.value = <<>>

\* what client.messages.create does: it raises (the call errors or times out),
\* or it answers with a text that ends in a newline
BackendReplies ==
    {[fails |-> TRUE, text |-> NoText]}
        \cup {[fails |-> FALSE, text |-> c \o <<"\n">>] : c \in Generated}

\* get_bash_command with the client created and the request sent before the
\* credential is looked at
get_bash_command_RequestFirst(key, reply) ==
    IF NoCredential(key) \/ reply.fails
    THEN [raised |-> TRUE, backend |-> "client, request", command |-> NoText]
    ELSE [raised |-> FALSE, backend |-> "client, request", command |-> Strip(reply.text)]

\* get_bash_command: [raised, backend, command], backend telling how far the
\* call got: no client created, or the client created and the request sent
get_bash_command(key, reply) ==
    IF NoCredential(key)
    THEN [raised |-> TRUE, backend |-> "none", command |-> NoText]
    ELSE IF reply.fails
    THEN [raised |-> TRUE, backend |-> "client, request", command |-> NoText]
    ELSE [raised |-> FALSE, backend |-> "client, request", command |-> Strip(reply.text)]

\* execute_command: True exactly when the subprocess exits with status zero
execute_command(code) == code = "zero"

\* edit_command: the text the line editor returns, or the original command if
\* the editor fails
EditOutcomes == {"edited", "unchanged", "fails"}

edit_command(command, outcome) == IF outcome = "edited" THEN EditedText ELSE command

\* --------------------------------------------------------- the buffer bridge
Marker == "ai-shell-inject-buffer"

AbsentFile == [exists |-> FALSE, content |-> <<>>]

\* detect_zsh_config: the marker is in ~/.zshrc; False if it cannot be read
detect_zsh_config(zshrc_file, read) ==
    IF read = "fails" THEN FALSE
    ELSE IF zshrc_file.exists THEN \E i \in DOMAIN zshrc_file.content : zshrc_file.content[i] = Marker
    ELSE FALSE

WriteOutcomes == {"ok", "open_fails", "write_fails"}

\* inject_to_zsh_buffer with the buffer file opened in append mode
inject_appending(buffer, clip, command, write, copy) ==
    IF write = "open_fails" THEN [buffer |-> buffer, clipboard |-> clip, result |-> FALSE]
    ELSE IF write = "write_fails"
    THEN [buffer |-> [exists |-> TRUE, content |-> buffer.content], clipboard |-> clip,
          result |-> FALSE]
    ELSE [buffer |-> [exists |-> TRUE, content |-> buffer.content \o command],
          clipboard |-> IF copy = "fails" THEN clip ELSE command,
          result |-> copy # "fails"]

\* inject_to_zsh_buffer: [buffer, clipboard, result]
inject_to_zsh_buffer(buffer, clip, command, write, copy) ==
    IF write = "open_fails" THEN [buffer |-> buffer, clipboard |-> clip, result |-> FALSE]
    ELSE IF write = "write_fails"
    THEN [buffer |-> [exists |-> TRUE, content |-> <<>>], clipboard |-> clip, result |-> FALSE]
    ELSE IF copy = "fails"
    THEN [buffer |-> [exists |-> TRUE, content |-> command], clipboard |-> clip, result |-> FALSE]
    ELSE [buffer |-> [exists |-> TRUE, content |-> command], clipboard |-> command, result |-> TRUE]

\* setup_zsh_integration: the snippet, cut where the marker string occurs
setup_zsh_integration ==
    << "\n# AI Shell ZSH integration\nfunction ", Marker,
       "() {\n    local cmd\n    if [[ -f \"${HOME}/.ai_shell_buffer\" ]]; then\n        cmd=$(cat \"${HOME}/.ai_shell_buffer\")\n        BUFFER=\"${cmd}\"\n        zle redisplay\n    fi\n}\n\nzle -N ",
       Marker, "\nbindkey '^[i' ", Marker, "  # Alt+i\n" >>

\* install_zsh_integration without the detect_zsh_config guard
install_unguarded(zshrc_file, read, append) ==
    IF append = "fails" THEN [zshrc |-> zshrc_file, result |-> FALSE]
    ELSE [zshrc |-> [exists |-> TRUE,
                     content |-> zshrc_file.content \o <<"\n">> \o setup_zsh_integration \o <<"\n">>],
          result |-> TRUE]

\* install_zsh_integration: [zshrc, result]
install_zsh_integration(zshrc_file, read, append) ==
    IF detect_zsh_config(zshrc_file, read) THEN [zshrc |-> zshrc_file, result |-> TRUE]
    ELSE IF append = "fails" THEN [zshrc |-> zshrc_file, result |-> FALSE]
    ELSE [zshrc |-> [exists |-> TRUE,
                     content |-> zshrc_file.content \o <<"\n">> \o setup_zsh_integration \o <<"\n">>],
          result |-> TRUE]


\* ------------------------------------------------------------------- state
VARIABLES
    args,             \* the command line of the running invocation
    api_key,          \* ANTHROPIC_API_KEY in its environment
    pc,               \* where the invocation stands
    returned,         \* what main returned: "None" while it runs, "True", "False"
    bash_command,     \* main / interactive_mode: the generated command
    edited_command,   \* main / interactive_mode: the command after the edit
    current_session,  \* interactive_mode: the live session
    now,              \* the wall clock
    buffer,           \* ~/.ai_shell_buffer
    clipboard,        \* the system clipboard
    zshrc,            \* ~/.zshrc
    history,          \* ~/.ai_shell_history: file name -> content
    executions,       \* commands this invocation passed to execute_command
    installs,         \* the install_zsh_integration calls made so far
    published,        \* the texts of the publishes whose file write completed
    zshrc0,           \* ~/.zshrc before the first invocation
    runs,             \* invocations started so far
    lines,            \* input lines the interactive loop has read
    last              \* the step just taken

vars == <<args, api_key, pc, returned, bash_command, edited_command, current_session, now,
          buffer, clipboard, zshrc, history, executions, installs, published, zshrc0,
          runs, lines, last>>

\* the record of a step: the operation, the operator's input, and the outcomes
\* of the calls it made ("-" where it made none)
Step(op, input) ==
    [op |-> op, input |-> input, exit |-> "-", write |-> "-", copy |-> "-", io |-> "-",
     backend |-> "-", text |-> NoText, result |-> "-"]

\* what get_bash_command can do in this environment
GenerationOutcomes == { get_bash_command(api_key, reply) : reply \in BackendReplies }

Bool(b) == IF b THEN "True" ELSE "False"

Flags == {"None", "True", "False"}

NoArgs ==
    [setup_zsh |-> FALSE, show_zsh_code |-> FALSE, interactive |-> FALSE,
     prompt |-> <<>>, execute |-> "None"]

\* the command lines main is started with in interactive mode
InteractiveArgs == { [NoArgs EXCEPT !.interactive = TRUE] }

\* and the ones without --interactive: the flags alone or with others that main
\* tests later, no argument at all, and a prompt with or without -x / -n
OneShotArgs ==
    { [NoArgs EXCEPT !.setup_zsh = TRUE],
      [NoArgs EXCEPT !.setup_zsh = TRUE, !.show_zsh_code = TRUE, !.prompt = PromptDf],
      [NoArgs EXCEPT !.show_zsh_code = TRUE],
      NoArgs,
      [NoArgs EXCEPT !.prompt = PromptDf],
      [NoArgs EXCEPT !.prompt = PromptDf, !.execute = "True"],
      [NoArgs EXCEPT !.prompt = PromptDf, !.execute = "False"] }

ArgSets == InteractiveArgs \cup OneShotArgs

UserLine == "export EDITOR=vi\n"

\* ~/.zshrc before the program ever ran: none, the operator's own lines, or
\* those with the integration already in them
UserZshrc == [exists |-> TRUE, content |-> <<UserLine>>]
InstalledZshrc ==
    [exists |-> TRUE, content |-> <<UserLine, "\n">> \o setup_zsh_integration \o <<"\n">>]

StoredSession ==
    [commands |-> <<[CommandEntry(PromptPs, CmdDu, 0) EXCEPT !.executed = TRUE]>>,
     metadata |-> [created_at |-> 0, updated_at |-> 0]]

FileB == WithExtension(NameB)

\* ~/.ai_shell_history before the program ever ran: b.yaml is missing, empty,
\* not YAML, a mapping without commands, or a saved session
HistoryWith(content) == [p \in {FileB} |-> content]

\* the home directory before the program ever ran (~/.zshrc and the history
\* directory do not depend on each other)
InitialHomes ==
    { [zshrc |-> AbsentFile, history |-> HistoryWith(EmptyFile)],
      [zshrc |-> InstalledZshrc, history |-> HistoryWith(GarbageFile)],
      [zshrc |-> UserZshrc, history |-> HistoryWith(Dump([metadata |-> StoredSession.metadata]))],
      [zshrc |-> UserZshrc, history |-> HistoryWith(Dump(StoredSession))] }

Init ==
    /\ args \in ArgSets
    /\ api_key \in ApiKeys
    /\ \E home \in InitialHomes : zshrc = home.zshrc /\ history = home.history
    /\ pc = "start"
    /\ returned = "None"
    /\ bash_command = NoText
    /\ edited_command = NoText
    /\ current_session = Unbound
    /\ now = 0
    /\ buffer = AbsentFile
    /\ clipboard = NoText
    /\ zshrc0 = zshrc
    /\ executions = <<>>
    /\ installs = <<>>
    /\ published = <<>>
    /\ runs = 1
    /\ lines = 0
    /\ last = Step("start", NoText)

\* main returns: the invocation is over
Return(value) ==
    /\ pc' = "exited"
    /\ returned' = Bool(value)

\* "sys.exit(0 if main() else 1)": main is a click command, and called without
\* arguments it runs in click's standalone mode, which ends the process with
\* status 0 as soon as the callback has returned, whatever it returned; the
\* conditional around the call is never evaluated
sys_exit(value) == 0

\* the exit status of an invocation that is over
exit_status == sys_exit(returned)

\* execute_command(command) with the subprocess exiting with `code`
Execute(command, code) ==
    executions' = Append(executions, [command |-> command, exit |-> code])

\* inject_to_zsh_buffer(command) with the given I/O outcomes
Publish(command, write, copy) ==
    LET r == inject_to_zsh_buffer(buffer, clipboard, command, write, copy)
    IN  /\ buffer' = r.buffer
        /\ clipboard' = r.clipboard
        /\ published' = IF write = "ok" THEN Append(published, command) ELSE published

PublishStep(op, input, command, write, copy) ==
    [Step(op, input) EXCEPT
        !.write = write, !.copy = copy, !.text = command,
        !.result = Bool(inject_to_zsh_buffer(buffer, clipboard, command, write, copy).result)]

\* the operator starts the program again, without --interactive
Restart ==
    /\ pc = "exited"
    /\ runs < MaxRuns
    /\ runs' = runs + 1
    /\ args' \in OneShotArgs
    /\ api_key' \in ApiKeys
    /\ pc' = "start"
    /\ returned' = "None"
    /\ bash_command' = NoText
    /\ edited_command' = NoText
    /\ current_session' = Unbound
    /\ executions' = <<>>
    /\ last' = Step("start", NoText)
    /\ UNCHANGED <<now, buffer, published, clipboard, zshrc, history, installs, zshrc0, lines>>

\* -------------------------------------------------------------------- main
\* --setup-zsh: return install_zsh_integration()
SetupZsh ==
    /\ pc = "start"
    /\ args.setup_zsh
    /\ \E read \in IoOutcomes, append \in IoOutcomes :
        LET r == install_zsh_integration(zshrc, read, append)
        IN  /\ zshrc' = r.zshrc
            /\ installs' = Append(installs,
                   [read |-> read,
                    append |-> IF detect_zsh_config(zshrc, read) THEN "-" ELSE append,
                    result |-> r.result])
            /\ Return(r.result)
            /\ last' = [Step("setup_zsh", NoText) EXCEPT !.result = Bool(r.result)]
    /\ UNCHANGED <<args, api_key, bash_command, edited_command, current_session, now, buffer, published,
                   clipboard, history, executions, zshrc0, runs, lines>>

\* --show-zsh-code
ShowZshCode ==
    /\ pc = "start"
    /\ ~args.setup_zsh /\ args.show_zsh_code
    /\ Return(TRUE)
    /\ last' = Step("show_zsh_code", NoText)
    /\ UNCHANGED <<args, api_key, bash_command, edited_command, current_session, now, buffer, published,
                   clipboard, zshrc, history, executions, installs, zshrc0, runs, lines>>

\* no flag and no prompt: the usage text
Usage ==
    /\ pc = "start"
    /\ ~args.setup_zsh /\ ~args.show_zsh_code /\ ~args.interactive
    /\ args.prompt = <<>>
    /\ Return(TRUE)
    /\ last' = Step("usage", NoText)
    /\ UNCHANGED <<args, api_key, bash_command, edited_command, current_session, now, buffer, published,
                   clipboard, zshrc, history, executions, installs, zshrc0, runs, lines>>

SingleShot ==
    /\ ~args.setup_zsh /\ ~args.show_zsh_code /\ ~args.interactive
    /\ args.prompt # <<>>

\* get_bash_command raises: main reports it and returns False
GenerateFails ==
    /\ pc = "start"
    /\ SingleShot
    /\ \E answer \in GenerationOutcomes :
        /\ answer.raised
        /\ last' = [Step("generate", args.prompt) EXCEPT
                       !.backend = answer.backend, !.result = "raised"]
    /\ Return(FALSE)
    /\ UNCHANGED <<args, api_key, bash_command, edited_command, current_session, now, buffer, published,
                   clipboard, zshrc, history, executions, installs, zshrc0, runs, lines>>

\* the command is generated; --execute runs it, --no-execute publishes it,
\* otherwise the menu is shown
Generate ==
    /\ pc = "start"
    /\ SingleShot
    /\ \E answer \in GenerationOutcomes, code \in ExitCodes, write \in WriteOutcomes,
          copy \in IoOutcomes :
        LET command == answer.command
        IN
        /\ ~answer.raised
        /\ bash_command' = command
        /\ IF args.execute = "True"
           THEN /\ Execute(command, code)
                /\ Return(execute_command(code))
                /\ last' = [Step("auto_execute", args.prompt) EXCEPT
                               !.backend = answer.backend, !.exit = code, !.text = command]
                /\ UNCHANGED <<buffer, published, clipboard>>
           ELSE IF args.execute = "False"
           THEN /\ Publish(command, write, copy)
                /\ Return(TRUE)
                /\ last' = [PublishStep("no_execute", args.prompt, command, write, copy)
                               EXCEPT !.backend = answer.backend]
                /\ UNCHANGED executions
           ELSE /\ pc' = "menu"
                /\ last' = [Step("generate", args.prompt) EXCEPT
                               !.backend = answer.backend, !.text = command]
                /\ UNCHANGED <<returned, buffer, published, clipboard, executions>>
    /\ UNCHANGED <<args, api_key, edited_command, current_session, now, zshrc, history, installs,
                   zshrc0, runs, lines>>


\* MainMenu with the final else of the menu after an edit: what is not y, e, c
\* or b cancels
MainMenu_ElseCancels(choice) ==
    IF choice = <<"y">> THEN "run"
    ELSE IF choice = <<"e">> THEN "edit"
    ELSE IF choice = <<"c">> THEN "copy"
    ELSE IF choice = <<"b">> THEN "buffer"
    ELSE "cancel"

\* the if/elif chain of the single-shot menu ("Choose an option")
MainMenu(choice) ==
    IF choice = <<"y">> THEN "run"
    ELSE IF choice = <<"n">> THEN "cancel"
    ELSE IF choice = <<"e">> THEN "edit"
    ELSE IF choice = <<"c">> THEN "copy"
    ELSE IF choice = <<"b">> THEN "buffer"
    ELSE "invalid"

\* MainSubMenu with run as its final else
MainSubMenu_ElseRuns(sub_choice) ==
    IF sub_choice = <<"c">> THEN "copy"
    ELSE IF sub_choice = <<"b">> THEN "buffer"
    ELSE "run"

\* the if/elif chain of the single-shot menu after an edit
MainSubMenu(sub_choice) ==
    IF sub_choice = <<"y">> THEN "run"
    ELSE IF sub_choice = <<"c">> THEN "copy"
    ELSE IF sub_choice = <<"b">> THEN "buffer"
    ELSE "cancel"

MainFrame == <<args, api_key, current_session, now, zshrc, history, installs, zshrc0, runs, lines>>

\* y: return execute_command(bash_command)
MainRun ==
    /\ pc = "menu"
    /\ \E answer \in MainAnswers, code \in ExitCodes :
        /\ MainMenu(Lower(answer)) = "run"
        /\ Execute(bash_command, code)
        /\ Return(execute_command(code))
        /\ last' = [Step("main_choice", answer) EXCEPT !.exit = code, !.text = bash_command]
    /\ UNCHANGED <<MainFrame, bash_command, edited_command, buffer, published, clipboard>>

\* n: cancelled, return True
MainCancel ==
    /\ pc = "menu"
    /\ \E answer \in MainAnswers :
        /\ MainMenu(Lower(answer)) = "cancel"
        /\ Return(TRUE)
        /\ last' = Step("main_choice", answer)
    /\ UNCHANGED <<MainFrame, bash_command, edited_command, buffer, published, clipboard, executions>>

\* e: edit_command(bash_command), then the menu without the edit option
MainEdit ==
    /\ pc = "menu"
    /\ \E answer \in MainAnswers, outcome \in EditOutcomes :
        /\ MainMenu(Lower(answer)) = "edit"
        /\ edited_command' = edit_command(bash_command, outcome)
        /\ pc' = "edited_menu"
        /\ last' = [Step("main_choice", answer) EXCEPT
                       !.text = edit_command(bash_command, outcome)]
    /\ UNCHANGED <<MainFrame, returned, bash_command, buffer, published, clipboard, executions>>

\* c: pyperclip.copy(bash_command), then "Also run the command?"; a clipboard
\* failure is caught by main and returns False
MainCopy ==
    /\ pc = "menu"
    /\ \E answer \in MainAnswers, copy \in IoOutcomes :
        /\ MainMenu(Lower(answer)) = "copy"
        /\ IF copy = "ok"
           THEN /\ clipboard' = bash_command
                /\ pc' = "copy_followup"
                /\ UNCHANGED returned
           ELSE /\ Return(FALSE)
                /\ UNCHANGED clipboard
        /\ last' = [Step("main_choice", answer) EXCEPT !.copy = copy, !.text = bash_command]
    /\ UNCHANGED <<MainFrame, bash_command, edited_command, buffer, published, executions>>

\* "Also run the command? (y/n)"
MainCopyFollowup ==
    /\ pc = "copy_followup"
    /\ \E answer \in YesNo, code \in ExitCodes :
        IF Lower(answer) = <<"y">>
        THEN /\ Execute(bash_command, code)
             /\ Return(execute_command(code))
             /\ last' = [Step("main_followup", answer) EXCEPT
                            !.exit = code, !.text = bash_command]
        ELSE /\ Return(TRUE)
             /\ last' = Step("main_followup", answer)
             /\ UNCHANGED executions
    /\ UNCHANGED <<MainFrame, bash_command, edited_command, buffer, published, clipboard>>

\* b: inject_to_zsh_buffer(bash_command), return True
MainBuffer ==
    /\ pc = "menu"
    /\ \E answer \in MainAnswers, write \in WriteOutcomes, copy \in IoOutcomes :
        /\ MainMenu(Lower(answer)) = "buffer"
        /\ Publish(bash_command, write, copy)
        /\ Return(TRUE)
        /\ last' = PublishStep("main_choice", answer, bash_command, write, copy)
    /\ UNCHANGED <<MainFrame, bash_command, edited_command, executions>>

\* anything else: "Invalid input", and the loop asks again
MainInvalid ==
    /\ pc = "menu"
    /\ \E answer \in MainAnswers :
        /\ MainMenu(Lower(answer)) = "invalid"
        /\ last' = Step("main_choice", answer)
        /\ UNCHANGED <<pc, returned>>
    /\ UNCHANGED <<MainFrame, bash_command, edited_command, buffer, published, clipboard, executions>>

\* the menu after the edit: y runs, c copies, b publishes, anything else cancels
MainSubChoice ==
    /\ pc = "edited_menu"
    /\ \E answer \in MainAnswers, code \in ExitCodes, write \in WriteOutcomes, copy \in IoOutcomes :
        LET branch == MainSubMenu(Lower(answer))
        IN  /\ IF branch = "run"
               THEN /\ Execute(edited_command, code)
                    /\ Return(execute_command(code))
                    /\ last' = [Step("main_sub_choice", answer) EXCEPT
                                   !.exit = code, !.text = edited_command]
                    /\ UNCHANGED <<buffer, published, clipboard>>
               ELSE IF branch = "copy"
               THEN /\ clipboard' = IF copy = "ok" THEN edited_command ELSE clipboard
                    /\ Return(copy = "ok")
                    /\ last' = [Step("main_sub_choice", answer) EXCEPT
                                   !.copy = copy, !.text = edited_command]
                    /\ UNCHANGED <<buffer, published, executions>>
               ELSE IF branch = "buffer"
               THEN /\ Publish(edited_command, write, copy)
                    /\ Return(TRUE)
                    /\ last' = PublishStep("main_sub_choice", answer, edited_command, write, copy)
                    /\ UNCHANGED executions
               ELSE /\ Return(TRUE)
                    /\ last' = Step("main_sub_choice", answer)
                    /\ UNCHANGED <<buffer, published, clipboard, executions>>
    /\ UNCHANGED <<MainFrame, bash_command, edited_command>>

Main ==
    \/ SetupZsh \/ ShowZshCode \/ Usage \/ GenerateFails \/ Generate
    \/ MainRun \/ MainCancel \/ MainEdit \/ MainCopy \/ MainCopyFollowup
    \/ MainBuffer \/ MainInvalid \/ MainSubChoice


\* -------------------------------------------------------- interactive_mode
\* the if/elif chain over an input line of the loop
Dispatch(user_input) ==
    LET lower == Lower(user_input)
    IN  IF lower \in {<<"e", "x", "i", "t">>, <<"q", "u", "i", "t">>} THEN "exit"
        ELSE IF lower = <<"h", "e", "l", "p">> THEN "help"
        ELSE IF IsPrefix(Save, lower) THEN "save"
        ELSE IF IsPrefix(Load, lower) THEN "load"
        ELSE IF lower = <<"l", "i", "s", "t">> THEN "list"
        ELSE IF lower = <<"h", "i", "s", "t", "o", "r", "y">> THEN "history"
        ELSE IF lower = <<"c", "l", "e", "a", "r">> THEN "clear"
        ELSE IF Strip(user_input) = <<>> THEN "blank"
        ELSE "generate"

\* InteractiveMenu with run as its final else
InteractiveMenu_ElseRuns(choice) ==
    IF choice = <<"e">> THEN "edit"
    ELSE IF choice = <<"c">> THEN "copy"
    ELSE IF choice = <<"b">> THEN "buffer"
    ELSE "run"

\* the if/elif chain of the interactive menu ("Choose an option")
InteractiveMenu(choice) ==
    IF choice = <<"e">> THEN "edit"
    ELSE IF choice = <<"c">> THEN "copy"
    ELSE IF choice = <<"b">> THEN "buffer"
    ELSE IF choice = <<"r">> THEN "run"
    ELSE "skip"

\* the if/elif chain of the interactive menu after an edit
InteractiveSubMenu(sub_choice) ==
    IF sub_choice = <<"c">> THEN "copy"
    ELSE IF sub_choice = <<"b">> THEN "buffer"
    ELSE IF sub_choice = <<"r">> THEN "run"
    ELSE "skip"

LoopFrame == <<args, api_key, zshrc, installs, zshrc0, runs>>

\* session.prompt returns a line; the clock has moved on while the loop waited
ReadLine ==
    /\ pc = "prompt"
    /\ lines < MaxLines
    /\ lines' = lines + 1
    /\ now' = now + 1

\* console.input returns a menu choice, later than the menu was shown
ReadChoice(at) ==
    /\ pc = at
    /\ now' = now + 1

\* --interactive: interactive_mode starts with an empty session
EnterInteractive ==
    /\ pc = "start"
    /\ ~args.setup_zsh /\ ~args.show_zsh_code /\ args.interactive
    /\ current_session' = NewSession(now)
    /\ pc' = "prompt"
    /\ last' = Step("interactive", NoText)
    /\ UNCHANGED <<lines, now, LoopFrame, returned, bash_command, edited_command, buffer, published, clipboard,
                   history, executions>>

\* exit / quit: with commands in the session the operator is asked whether to
\* save; reading the commands of a value that has none raises, and the loop goes on
LineExit ==
    /\ ReadLine
    /\ \E user_input \in Lines :
        /\ Dispatch(user_input) = "exit"
        /\ IF ~HasKey(current_session, "commands")
           THEN /\ last' = [Step("exit", user_input) EXCEPT !.result = "raised"]
                /\ UNCHANGED <<pc, returned>>
           ELSE IF current_session.commands = <<>>
           THEN /\ Return(TRUE)
                /\ last' = Step("exit", user_input)
           ELSE /\ pc' = "exit_confirm"
                /\ last' = Step("exit", user_input)
                /\ UNCHANGED returned
    /\ UNCHANGED <<LoopFrame, bash_command, edited_command, current_session, buffer, published,
                   clipboard, history, executions>>

\* "Save session before exiting? (y/n)"
ExitConfirm ==
    /\ pc = "exit_confirm"
    /\ \E answer \in YesNo :
        /\ IF Lower(answer) = <<"y">>
           THEN pc' = "exit_name" /\ UNCHANGED returned
           ELSE Return(TRUE)
        /\ last' = Step("exit_confirm", answer)
    /\ UNCHANGED <<lines, now, LoopFrame, bash_command, edited_command, current_session, buffer, published,
                   clipboard, history, executions>>

\* "Enter session name": save_session(current_session, session_name or None),
\* then break; a save that raises is caught by the loop, which goes on
ExitName ==
    /\ pc = "exit_name"
    /\ \E session_name \in {<<>>, NameA}, io \in IoOutcomes :
        LET r == save_session(history, current_session, session_name, now, io)
        IN  /\ history' = r.files
            /\ IF r.raised
               THEN pc' = "prompt" /\ UNCHANGED returned
               ELSE Return(TRUE)
            /\ last' = [Step("exit_name", session_name) EXCEPT
                           !.io = io, !.text = r.path,
                           !.result = IF r.raised THEN "raised" ELSE "saved"]
    /\ UNCHANGED <<lines, now, LoopFrame, bash_command, edited_command, current_session, buffer, published,
                   clipboard, executions>>

\* help, list, history, clear and a blank line print and change nothing
LineShow ==
    /\ ReadLine
    /\ \E user_input \in Lines :
        /\ Dispatch(user_input) \in {"help", "list", "history", "clear", "blank"}
        /\ last' = [Step(Dispatch(user_input), user_input) EXCEPT
                       !.result = IF /\ Dispatch(user_input) = "history"
                                     /\ ~HasKey(current_session, "commands")
                                  THEN "raised" ELSE "-"]
    /\ UNCHANGED <<LoopFrame, pc, returned, bash_command, edited_command, current_session,
                   buffer, published, clipboard, history, executions>>

\* LineSave without the loop's "except Exception": a save that raises ends
\* interactive_mode, and main returns False
LineSave_Propagates ==
    /\ ReadLine
    /\ \E user_input \in Lines, io \in IoOutcomes :
        LET parts == Split1(user_input)
            session_name == IF Len(parts) > 1 THEN parts[2] ELSE NoText
            touched == [current_session EXCEPT !.metadata.updated_at = now]
            r == save_session(history, touched, session_name, now, io)
        IN  /\ Dispatch(user_input) = "save"
            /\ IF ~HasKey(current_session, "metadata")
               THEN /\ last' = [Step("save", user_input) EXCEPT !.result = "raised"]
                    /\ Return(FALSE)
                    /\ UNCHANGED <<current_session, history>>
               ELSE /\ current_session' = touched
                    /\ history' = r.files
                    /\ IF r.raised THEN Return(FALSE) ELSE UNCHANGED <<pc, returned>>
                    /\ last' = [Step("save", user_input) EXCEPT
                                   !.io = io, !.text = r.path,
                                   !.result = IF r.raised THEN "raised" ELSE "saved"]
    /\ UNCHANGED <<LoopFrame, bash_command, edited_command, buffer, published, clipboard,
                   executions>>

\* save [name]: updated_at is set, then save_session
LineSave ==
    /\ ReadLine
    /\ \E user_input \in Lines, io \in IoOutcomes :
        LET parts == Split1(user_input)
            session_name == IF Len(parts) > 1 THEN parts[2] ELSE NoText
            touched == [current_session EXCEPT !.metadata.updated_at = now]
            r == save_session(history, touched, session_name, now, io)
        IN  /\ Dispatch(user_input) = "save"
            /\ IF ~HasKey(current_session, "metadata")
               THEN /\ last' = [Step("save", user_input) EXCEPT !.result = "raised"]
                    /\ UNCHANGED <<current_session, history>>
               ELSE /\ current_session' = touched
                    /\ history' = r.files
                    /\ last' = [Step("save", user_input) EXCEPT
                                   !.io = io, !.text = r.path,
                                   !.result = IF r.raised THEN "raised" ELSE "saved"]
    /\ UNCHANGED <<LoopFrame, pc, returned, bash_command, edited_command, buffer, published, clipboard,
                   executions>>

\* LineLoad keeping the records of the live session ahead of the loaded ones
LineLoad_Merges ==
    /\ ReadLine
    /\ \E user_input \in Lines, io \in IoOutcomes :
        LET parts == Split1(user_input)
            session_path == SessionPath(WithExtension(parts[2]))
            r == load_session(history, session_path, io)
        IN  /\ Dispatch(user_input) = "load"
            /\ IF Len(parts) < 2
               THEN /\ last' = [Step("load", user_input) EXCEPT !.result = "no name"]
                    /\ UNCHANGED current_session
               ELSE IF r.raised
               THEN /\ last' = [Step("load", user_input) EXCEPT
                                   !.io = io, !.text = session_path, !.result = "failed"]
                    /\ UNCHANGED current_session
               ELSE /\ current_session' =
                           IF HasKey(r.value, "commands") /\ HasKey(current_session, "commands")
                           THEN [r.value EXCEPT !.commands = current_session.commands \o @]
                           ELSE r.value
                    /\ last' = [Step("load", user_input) EXCEPT
                                   !.io = io, !.text = session_path,
                                   !.result = IF HasKey(r.value, "commands")
                                              THEN "loaded" ELSE "failed"]
    /\ UNCHANGED <<LoopFrame, pc, returned, bash_command, edited_command, buffer, published,
                   clipboard, history, executions>>

\* load <name>: the loaded value replaces the session as soon as load_session
\* returns; listing its commands may still raise
LineLoad ==
    /\ ReadLine
    /\ \E user_input \in Lines, io \in IoOutcomes :
        LET parts == Split1(user_input)
            session_path == SessionPath(WithExtension(parts[2]))
            r == load_session(history, session_path, io)
        IN  /\ Dispatch(user_input) = "load"
            /\ IF Len(parts) < 2
               THEN /\ last' = [Step("load", user_input) EXCEPT !.result = "no name"]
                    /\ UNCHANGED current_session
               ELSE IF r.raised
               THEN /\ last' = [Step("load", user_input) EXCEPT
                                   !.io = io, !.text = session_path, !.result = "failed"]
                    /\ UNCHANGED current_session
               ELSE /\ current_session' = r.value
                    /\ last' = [Step("load", user_input) EXCEPT
                                   !.io = io, !.text = session_path,
                                   !.result = IF HasKey(r.value, "commands")
                                              THEN "loaded" ELSE "failed"]
    /\ UNCHANGED <<LoopFrame, pc, returned, bash_command, edited_command, buffer, published, clipboard,
                   history, executions>>

\* any other line: get_bash_command, append the record, set updated_at, show the menu
LineGenerate ==
    /\ ReadLine
    /\ \E user_input \in Lines, answer \in GenerationOutcomes :
        LET command == answer.command
        IN
        /\ Dispatch(user_input) = "generate"
        /\ IF answer.raised
           THEN /\ last' = [Step("generate", user_input) EXCEPT
                               !.backend = answer.backend, !.result = "generation raised"]
                /\ UNCHANGED <<pc, bash_command, current_session>>
           ELSE IF ~HasKey(current_session, "commands")
           THEN /\ last' = [Step("generate", user_input) EXCEPT
                               !.backend = answer.backend, !.text = command,
                               !.result = "raised"]
                /\ bash_command' = command
                /\ UNCHANGED <<pc, current_session>>
           ELSE IF ~HasKey(current_session, "metadata")
           THEN /\ last' = [Step("generate", user_input) EXCEPT
                               !.backend = answer.backend, !.text = command,
                               !.result = "raised"]
                /\ bash_command' = command
                /\ current_session' =
                       [current_session EXCEPT
                           !.commands = Append(@, CommandEntry(user_input, command, now))]
                /\ UNCHANGED pc
           ELSE /\ last' = [Step("generate", user_input) EXCEPT
                               !.backend = answer.backend, !.text = command,
                               !.result = "proposed"]
                /\ bash_command' = command
                /\ current_session' =
                       [current_session EXCEPT
                           !.commands = Append(@, CommandEntry(user_input, command, now)),
                           !.metadata.updated_at = now]
                /\ pc' = "review"
    /\ UNCHANGED <<LoopFrame, returned, edited_command, buffer, published, clipboard, history, executions>>


\* the menu of a proposed command: e opens the editor and stores what it returns
\* in the last record
ReviewEdit ==
    /\ ReadChoice("review")
    /\ \E answer \in InteractiveAnswers, outcome \in EditOutcomes :
        /\ InteractiveMenu(Lower(answer)) = "edit"
        /\ edited_command' = edit_command(bash_command, outcome)
        /\ current_session' =
               SetLast(current_session, "command", edit_command(bash_command, outcome))
        /\ pc' = "edited"
        /\ last' = [Step("choice", answer) EXCEPT !.text = edit_command(bash_command, outcome)]
    /\ UNCHANGED <<lines, LoopFrame, returned, bash_command, buffer, published, clipboard, history, executions>>

\* c, b, r or anything else at the menu of a proposed command (branch from
\* InteractiveMenu) or of an edited one (branch from InteractiveSubMenu); the
\* iteration ends whatever the choice
Act(op, answer, branch, command, code, write, copy) ==
    /\ pc' = "prompt"
    /\ IF branch = "copy"
       THEN /\ clipboard' = IF copy = "ok" THEN command ELSE clipboard
            /\ last' = [Step(op, answer) EXCEPT
                           !.copy = copy, !.text = command,
                           !.result = IF copy = "ok" THEN "-" ELSE "raised"]
            /\ UNCHANGED <<buffer, published, executions, current_session>>
       ELSE IF branch = "buffer"
       THEN /\ Publish(command, write, copy)
            /\ last' = PublishStep(op, answer, command, write, copy)
            /\ UNCHANGED <<executions, current_session>>
       ELSE IF branch = "run"
       THEN /\ Execute(command, code)
            /\ current_session' = SetLast(current_session, "executed", TRUE)
            /\ last' = [Step(op, answer) EXCEPT
                           !.exit = code, !.text = command,
                           !.result = Bool(execute_command(code))]
            /\ UNCHANGED <<buffer, published, clipboard>>
       ELSE /\ last' = Step(op, answer)
            /\ UNCHANGED <<buffer, published, clipboard, executions, current_session>>

ReviewAct ==
    /\ ReadChoice("review")
    /\ \E answer \in InteractiveAnswers, code \in ExitCodes, write \in WriteOutcomes, copy \in IoOutcomes :
        /\ InteractiveMenu(Lower(answer)) # "edit"
        /\ Act("choice", answer, InteractiveMenu(Lower(answer)), bash_command,
               code, write, copy)
    /\ UNCHANGED <<lines, LoopFrame, returned, bash_command, edited_command, history>>

\* EditedAct with an e branch that opens the editor again
EditedAct_EditsAgain ==
    /\ ReadChoice("edited")
    /\ \E answer \in InteractiveAnswers, code \in ExitCodes, write \in WriteOutcomes,
          copy \in IoOutcomes, outcome \in EditOutcomes :
        IF Lower(answer) = <<"e">>
        THEN /\ edited_command' = edit_command(edited_command, outcome)
             /\ current_session' =
                    SetLast(current_session, "command", edit_command(edited_command, outcome))
             /\ last' = [Step("sub_choice", answer) EXCEPT
                            !.text = edit_command(edited_command, outcome)]
             /\ UNCHANGED <<pc, buffer, published, clipboard, executions>>
        ELSE /\ Act("sub_choice", answer, InteractiveSubMenu(Lower(answer)), edited_command,
                    code, write, copy)
             /\ UNCHANGED edited_command
    /\ UNCHANGED <<lines, LoopFrame, returned, bash_command, history>>

EditedAct ==
    /\ ReadChoice("edited")
    /\ \E answer \in InteractiveAnswers, code \in ExitCodes, write \in WriteOutcomes, copy \in IoOutcomes :
        Act("sub_choice", answer, InteractiveSubMenu(Lower(answer)), edited_command,
            code, write, copy)
    /\ UNCHANGED <<lines, LoopFrame, returned, bash_command, edited_command, history>>

\* Interrupt without the "except KeyboardInterrupt" of the loop: Ctrl+C ends
\* interactive_mode at once
Interrupt_Aborts ==
    /\ pc \in {"prompt", "review", "edited", "exit_confirm", "exit_name"}
    /\ Return(TRUE)
    /\ last' = Step("interrupt", NoText)
    /\ UNCHANGED <<lines, now, LoopFrame, bash_command, edited_command, current_session,
                   buffer, published, clipboard, history, executions>>

\* Ctrl+C while the loop waits for the operator: "Ctrl+C pressed. Exit? (y/n)"
Interrupt ==
    /\ pc \in {"prompt", "review", "edited", "exit_confirm", "exit_name"}
    /\ pc' = "interrupt"
    /\ last' = Step("interrupt", NoText)
    /\ UNCHANGED <<lines, now, LoopFrame, returned, bash_command, edited_command, current_session,
                   buffer, published, clipboard, history, executions>>

\* the answer to it: y ends the loop, anything else goes on
InterruptAnswer ==
    /\ pc = "interrupt"
    /\ \E answer \in YesNo :
        /\ IF Lower(answer) = <<"y">>
           THEN Return(TRUE)
           ELSE pc' = "prompt" /\ UNCHANGED returned
        /\ last' = Step("interrupt_answer", answer)
    /\ UNCHANGED <<lines, now, LoopFrame, bash_command, edited_command, current_session, buffer, published,
                   clipboard, history, executions>>

\* reading the answer fails (end of input, another Ctrl+C): the loop goes on
InterruptUnanswered ==
    /\ pc = "interrupt"
    /\ pc' = "prompt"
    /\ last' = [Step("interrupt_answer", NoText) EXCEPT !.result = "raised"]
    /\ UNCHANGED <<lines, now, LoopFrame, returned, bash_command, edited_command, current_session,
                   buffer, published, clipboard, history, executions>>

Interactive ==
    \/ EnterInteractive \/ LineExit \/ ExitConfirm \/ ExitName \/ LineShow \/ LineSave
    \/ LineLoad \/ LineGenerate \/ ReviewEdit \/ ReviewAct \/ EditedAct
    \/ Interrupt \/ InterruptAnswer \/ InterruptUnanswered

\* one invocation of the program
Next == Main \/ Interactive

Spec == Init /\ [][Next]_vars

\* invocations without --interactive, one after the other in the same home directory
InitOneShot == Init /\ args \in OneShotArgs

NextOneShot == Main \/ Restart

SpecOneShot == InitOneShot /\ [][NextOneShot]_vars


\* ------------------------------------------------------------------ claims
InteractiveChoice == last.op \in {"choice", "sub_choice"}

\* C1: in interactive mode the last record's `executed` is true only after its
\* command was run and the run exited with status zero; not after a run that
\* exits non-zero, and not after copy, buffer or skip.
C1_ExecutedOnlyAfterSuccessfulRun ==
    InteractiveChoice =>
        (Last(current_session.commands).executed => last.exit = "zero")

\* the file a load step names
LoadTarget(step) == SessionPath(WithExtension(Split1(step.input)[2]))

\* the file is missing, unreadable, or holds no Session structure
NoSessionIn(files, session_path, io) ==
    \/ session_path \notin DOMAIN files
    \/ io = "fails"
    \/ files[session_path].kind # "yaml"
    \/ ~IsSession(SafeLoad(files[session_path]))

LoadFailed ==
    /\ pc = "prompt"
    /\ last'.op = "load"
    /\ last'.result # "no name"
    /\ NoSessionIn(history, LoadTarget(last'), last'.io)

\* C2: whenever `load <name>` fails (file missing, unreadable, or not a Session
\* structure), the live session after the command equals the one before it.
C2_FailedLoadKeepsSession == [][LoadFailed => current_session' = current_session]_vars

\* C3: load_session raises for every session file that is missing or malformed;
\* it never returns a non-Session value to its caller.
C3_LoadRaisesOnMalformed ==
    (last.op = "load" /\ last.result # "no name") =>
        (NoSessionIn(history, LoadTarget(last), last.io)
            => load_session(history, LoadTarget(last), last.io).raised)

\* the choices the single-shot menu offers
MenuChoices == {<<"y">>, <<"n">>, <<"e">>, <<"c">>, <<"b">>}

InvalidMenuInput ==
    /\ pc = "menu"
    /\ last'.op = "main_choice"
    /\ Lower(last'.input) \notin MenuChoices

\* C4: at the single-shot menu an input other than y/n/e/c/b leaves the review
\* in Proposed: nothing is executed, copied or written to the buffer file, the
\* command text is unchanged and main has not returned, so the operator is
\* asked again; by induction, for any number of such inputs in a row.
C4_InvalidInputStaysProposed ==
    [][InvalidMenuInput =>
          /\ pc' = "menu"
          /\ UNCHANGED <<returned, bash_command, edited_command, buffer, clipboard,
                         published, executions, zshrc, history>>]_vars

C4_Witness ==
    /\ pc = "menu"
    /\ last.op = "main_choice"
    /\ last.input = <<"z">>
    /\ bash_command = CmdLs

InvalidChoice ==
    \/ /\ pc = "edited_menu"
       /\ last'.op = "main_sub_choice"
       /\ Lower(last'.input) \notin {<<"y">>, <<"n">>, <<"c">>, <<"b">>}
    \/ /\ pc = "review"
       /\ last'.op = "choice"
       /\ Lower(last'.input) \notin {<<"e">>, <<"c">>, <<"b">>, <<"r">>, <<"s">>}
    \/ /\ pc = "edited"
       /\ last'.op = "sub_choice"
       /\ Lower(last'.input) \notin {<<"c">>, <<"b">>, <<"r">>, <<"s">>}

\* C5: at the menu after an edit (both modes) and at the interactive menu, an
\* input that is not an offered option leaves the review where it is: the
\* operator is asked again.
C5_InvalidChoiceAsksAgain == [][InvalidChoice => pc' = pc]_vars

\* C6: a publish returns True exactly when the write of the buffer file
\* completed, whatever the clipboard copy did.
C6_PublishSucceedsIffWritten ==
    last.write # "-" => (last.result = "True" <=> last.write = "ok")

\* C7: after a publish whose file write completed, the buffer file holds exactly
\* the text of that publish, whatever was published before it.
C7_BufferHoldsLastPublish ==
    last.write = "ok" =>
        /\ buffer = [exists |-> TRUE, content |-> last.text]
        /\ last.text = Last(published)

\* the same command published twice, then another one
C7_Witness ==
    /\ last.write = "ok"
    /\ Len(published) = 3
    /\ published[1] = published[2]
    /\ published[2] # published[3]
    /\ buffer.content = published[3]

\* occurrences of the marker string in a configuration file
MarkerCount(zshrc_file) ==
    Cardinality({i \in DOMAIN zshrc_file.content : zshrc_file.content[i] = Marker})

\* install-integration was invoked twice on a configuration file that did not
\* hold the marker, and the file could be read and appended to both times
InstalledTwice ==
    /\ Len(installs) = 2
    /\ ~detect_zsh_config(zshrc0, "ok")
    /\ \A i \in 1..2 : installs[i].read = "ok" /\ installs[i].append # "fails"

\* C8 as stated: after these two invocations the marker string appears exactly
\* once in the configuration file.
C8_MarkerOnceAfterTwoInstalls == InstalledTwice => MarkerCount(zshrc) = 1

\* the same two invocations, except that the second could not read the file
\* and appended to it
InstalledTwiceUnread ==
    /\ Len(installs) = 2
    /\ ~detect_zsh_config(zshrc0, "ok")
    /\ installs[1].read = "ok" /\ installs[1].append = "ok"
    /\ installs[2].read = "fails" /\ installs[2].append = "ok"

\* C8 as amended: after these two invocations the configuration file is the
\* original content followed by exactly one copy of the snippet, in which the
\* marker string occurs three times; when the second invocation cannot read the
\* file it appends a second copy.
C8_SnippetOnceAfterTwoInstalls ==
    /\ InstalledTwice =>
        /\ zshrc.exists
        /\ zshrc.content = zshrc0.content \o <<"\n">> \o setup_zsh_integration \o <<"\n">>
        /\ MarkerCount(zshrc) = 3
    /\ InstalledTwiceUnread =>
        /\ zshrc.content = zshrc0.content \o <<"\n">> \o setup_zsh_integration \o <<"\n">>
                                          \o <<"\n">> \o setup_zsh_integration \o <<"\n">>
        /\ MarkerCount(zshrc) = 6

C8_Witness ==
    /\ InstalledTwice
    /\ installs[1].append = "ok"
    /\ installs[2].append = "-"
    /\ last.op = "setup_zsh"

\* the first word of a line, in lower case
FirstWord(line) == IF Split1(line) = <<>> THEN <<>> ELSE Lower(Split1(line)[1])

\* the meta-command a line is: help, exit/quit, save [name], load <name>, list,
\* history, clear, compared case-insensitively; "none" for any other line
MetaCommand(line) ==
    IF Lower(line) \in {<<"e", "x", "i", "t">>, <<"q", "u", "i", "t">>} THEN "exit"
    ELSE IF Lower(line) = <<"h", "e", "l", "p">> THEN "help"
    ELSE IF FirstWord(line) = Save THEN "save"
    ELSE IF FirstWord(line) = Load THEN "load"
    ELSE IF Lower(line) = <<"l", "i", "s", "t">> THEN "list"
    ELSE IF Lower(line) = <<"h", "i", "s", "t", "o", "r", "y">> THEN "history"
    ELSE IF Lower(line) = <<"c", "l", "e", "a", "r">> THEN "clear"
    ELSE "none"

\* C9: a line is dispatched as a meta-command only when it is one; a line that
\* merely begins with the letters of save or load never saves or loads.
C9_OnlyMetaCommandsDispatched ==
    last.op \in {"exit", "help", "save", "load", "list", "history", "clear"}
        => MetaCommand(last.input) = last.op

\* C10: a generation prompt whose generation succeeds appends exactly one record
\* with that prompt to the end of the live session, and the review that follows
\* neither appends nor removes a record.
C10_GenerationAppendsOneRecord ==
    [][/\ (pc = "prompt" /\ last'.op = "generate" /\ last'.result # "generation raised") =>
            /\ HasKey(current_session, "commands")
            /\ HasKey(current_session', "commands")
            /\ Len(current_session'.commands) = Len(current_session.commands) + 1
            /\ SubSeq(current_session'.commands, 1, Len(current_session.commands))
                   = current_session.commands
            /\ Last(current_session'.commands).prompt = last'.input
       /\ pc \in {"review", "edited"} =>
            Len(current_session'.commands) = Len(current_session.commands)]_vars

\* a save (the save command, or the one at exit) of a session with commands completed
SavedWithCommands ==
    /\ last.op \in {"save", "exit_name"}
    /\ last.result = "saved"
    /\ IsSession(current_session)
    /\ current_session.commands # <<>>

EditedThenRun ==
    /\ pc = "edited"
    /\ last.op = "choice"
    /\ last.text # bash_command
    /\ last'.op = "sub_choice"
    /\ Lower(last'.input) = <<"r">>
    /\ last'.exit = "zero"

\* C12: in interactive mode, after the operator edits the candidate and chooses
\* run and the run succeeds, the last record's command is the text the editor
\* returned, its executed is true, the text passed to execute_command is that
\* text, and the record's command is no longer the candidate.
C12_EditedCommandRunAndRecorded ==
    [][EditedThenRun =>
          /\ Last(current_session'.commands).command = last.text
          /\ Last(current_session'.commands).executed
          /\ executions' = Append(executions, [command |-> last.text, exit |-> "zero"])
          /\ Last(current_session'.commands).command # bash_command
          /\ Last(current_session'.commands).prompt = Last(current_session.commands).prompt]_vars

\* an edited command was run in a session that holds an earlier record
C12_Witness ==
    /\ last.op = "sub_choice"
    /\ Lower(last.input) = <<"r">>
    /\ last.exit = "zero"
    /\ bash_command = CmdLs
    /\ Len(current_session.commands) = 2
    /\ Last(current_session.commands).command = EditedText
    /\ Last(current_session.commands).executed
    /\ Last(executions).command = EditedText

\* the step just taken called get_bash_command
Generation == last.op \in {"generate", "auto_execute", "no_execute"}

\* C13: whenever get_bash_command is called for a prompt while the credential is
\* missing (unset or empty), it raises, and it has neither created a backend
\* client nor sent a request.
C13_NoCredentialNoBackendCall ==
    (Generation /\ NoCredential(api_key)) =>
        /\ last.backend = "none"
        /\ last.result \in {"raised", "generation raised"}

\* the second prompt of an interactive loop that runs without the credential
C13_Witness ==
    /\ NoCredential(api_key)
    /\ last.op = "generate"
    /\ last.input = PromptNo
    /\ last.backend = "none"
    /\ lines = 2
    /\ pc = "prompt"

\* the action the operator ended on failed: the command that was run exited
\* non-zero, the integration could not be installed, or the generation raised
ActionFailed ==
    \/ last.exit = "nonzero"
    \/ last.op = "setup_zsh" /\ last.result = "False"
    \/ last.op = "generate" /\ last.result = "raised"

\* C14: when a single-shot invocation is over, its exit status is non-zero if
\* the command that was run exited non-zero, if the integration install failed
\* or if the generation failed, and zero otherwise.
C14_ExitStatusReflectsOutcome ==
    (pc = "exited" /\ ~args.interactive) => (exit_status # 0 <=> ActionFailed)

\* the history directory with the session written to the file of that path
Written(files, session_path, session_data) ==
    [p \in DOMAIN files \cup {session_path} |->
        IF p = session_path THEN Dump(session_data) ELSE files[p]]

\* C15: on exit / quit, a session with at least one command makes the loop ask
\* "Save session before exiting?", and the session is written exactly when the
\* operator answers y (to the file named next, if the write goes through); a
\* session without commands is neither asked about nor written.
C15_ExitAsksAndSavesIffAffirmed ==
    [][/\ (pc = "prompt" /\ last'.op = "exit") =>
            /\ history' = history
            /\ (HasKey(current_session, "commands") /\ current_session.commands # <<>>)
                   => pc' = "exit_confirm"
            /\ (HasKey(current_session, "commands") /\ current_session.commands = <<>>)
                   => pc' = "exited"
            /\ ~HasKey(current_session, "commands") => pc' # "exit_confirm"
       /\ (pc = "exit_confirm" /\ last'.op = "exit_confirm") =>
            /\ history' = history
            /\ IF Lower(last'.input) = <<"y">> THEN pc' = "exit_name" ELSE pc' = "exited"
       /\ (pc = "exit_name" /\ last'.op = "exit_name") =>
            /\ current_session.commands # <<>>
            /\ IF last'.io = "ok"
               THEN history' = Written(history, last'.text, current_session)
               ELSE history' = history
       /\ (pc \in {"exit_confirm", "exit_name"} /\ history' # history) =>
            last'.op = "exit_name"]_vars

\* the operator left with exit, answered y, and the session with its command
\* is in the named file
C15_Witness ==
    /\ pc = "exited"
    /\ last.op = "exit_name"
    /\ last.input = NameA
    /\ last.result = "saved"
    /\ current_session.commands # <<>>
    /\ history[WithExtension(NameA)] = Dump(current_session)

\* the operator cancels: n at a single-shot menu, s at an interactive one
CancelChoice ==
    \/ /\ pc \in {"menu", "edited_menu"}
       /\ last'.op \in {"main_choice", "main_sub_choice"}
       /\ Lower(last'.input) = <<"n">>
    \/ /\ pc \in {"review", "edited"}
       /\ last'.op \in {"choice", "sub_choice"}
       /\ Lower(last'.input) = <<"s">>

\* C16: cancelling a proposed or an edited command executes nothing and leaves
\* the buffer file, the clipboard and the shell configuration file (and the
\* saved sessions) as they were.
C16_CancelHasNoSideEffects ==
    [][CancelChoice =>
          UNCHANGED <<executions, buffer, published, clipboard, zshrc, installs, history>>]_vars

\* a command was published, the next one is skipped: the buffer file and the
\* clipboard still hold the first
C16_Witness ==
    /\ last.op = "choice"
    /\ last.input = <<"s">>
    /\ pc = "prompt"
    /\ Len(current_session.commands) = 2
    /\ buffer = [exists |-> TRUE, content |-> CmdLs]
    /\ clipboard = CmdLs
    /\ executions = <<>>

\* a step changed the live session (a record appended, a command replaced by an
\* edit, executed set, the session replaced by a load, updated_at set by save)
SessionMutated == current_session' # current_session /\ IsSession(current_session')

\* C17: after every step that changes the live session, its updated_at is the
\* time of that step or later.
C17_UpdatedAtRefreshedOnMutation ==
    [][SessionMutated => current_session'.metadata.updated_at >= now']_vars

\* a step taken on a session that has a commands sequence, other than a load
\* that succeeded
NotALoad ==
    /\ HasKey(current_session, "commands")
    /\ ~(last'.op = "load" /\ last'.result = "loaded")

\* C18: a step other than a successful load keeps every record of the live
\* session in its place: the prompts before the step are a prefix of the
\* prompts after it, the records before the last one are unchanged, and of the
\* last one only command and executed may differ.
C18_CommandsAppendOnly ==
    [][NotALoad =>
          LET before == current_session.commands
          IN  /\ HasKey(current_session', "commands")
              /\ Len(current_session'.commands) >= Len(before)
              /\ \A i \in 1..Len(before) :
                    /\ current_session'.commands[i].prompt = before[i].prompt
                    /\ current_session'.commands[i].timestamp = before[i].timestamp
                    /\ current_session'.commands[i].output = before[i].output
                    /\ i < Len(before) => current_session'.commands[i] = before[i]]_vars

\* the operator answers the menu shown after an edit
ChoiceAfterEdit ==
    /\ pc \in {"edited_menu", "edited"}
    /\ last'.op \in {"main_sub_choice", "sub_choice"}

\* C19: whatever is answered at the menu after an edit, the review ends (main
\* returns, the interactive loop is back at its prompt) and the edited text
\* stays what the one edit made it; e in particular is not an edit there: it
\* runs, copies and publishes nothing and leaves the record alone.
C19_EditedAtMostOnce ==
    [][ChoiceAfterEdit =>
          /\ pc' = IF pc = "edited_menu" THEN "exited" ELSE "prompt"
          /\ edited_command' = edited_command
          /\ pc = "edited" => Last(current_session'.commands).command = edited_command
          /\ Lower(last'.input) = <<"e">> =>
                UNCHANGED <<executions, buffer, published, clipboard, current_session>>]_vars

\* e was answered at the interactive menu of an edited command
C19_Witness ==
    /\ last.op = "sub_choice"
    /\ last.input = <<"e">>
    /\ pc = "prompt"
    /\ edited_command = EditedText
    /\ Last(current_session.commands).command = EditedText

\* something failed in the step: a call raised, a load or a publish failed, the
\* command that was run exited non-zero, a file or the clipboard could not be used
Failed(step) ==
    \/ step.result \in {"generation raised", "raised", "failed", "False"}
    \/ step.exit = "nonzero"
    \/ step.copy = "fails"
    \/ step.write \in {"open_fails", "write_fails"}
    \/ step.io = "fails"

\* the steps on which the loop may end: exit / quit (with the question that
\* follows it answered, and the save it asks for done), or y after Ctrl+C
LoopEnd(step) ==
    \/ step.op = "exit"
    \/ step.op = "exit_confirm" /\ Lower(step.input) # <<"y">>
    \/ step.op = "exit_name" /\ step.result = "saved"
    \/ step.op = "interrupt_answer" /\ Lower(step.input) = <<"y">>

\* C20: in interactive mode a step in which something failed (generation, a
\* command exiting non-zero, a save, a load) leaves the loop at its prompt, where
\* it reads the next line; the loop ends only on exit / quit or on an interrupt
\* the operator confirms.
C20_FailuresDoNotEndLoop ==
    [][(args.interactive /\ pc # "start") =>
          /\ Failed(last') => (pc' = "prompt" /\ returned' = "None")
          /\ pc' = "exited" => LoopEnd(last')]_vars

\* a command exited non-zero, the loop read the next line, its generation
\* failed, and the loop is at its prompt again
C20_Witness ==
    /\ args.interactive
    /\ pc = "prompt"
    /\ lines = 2
    /\ Len(executions) = 1
    /\ executions[1].exit = "nonzero"
    /\ last.op = "generate"
    /\ last.result = "generation raised"
    /\ returned = "None"

\* C21: Ctrl+C in the interactive loop does not end it: the loop asks "Exit?",
\* nothing but the answer to that question comes next, the loop ends exactly
\* when the answer is y, and on any other answer, or when reading the answer
\* fails, it is back at its prompt; the live session is the same throughout.
C21_InterruptAsksBeforeExit ==
    [][/\ last'.op = "interrupt" =>
            /\ pc' = "interrupt"
            /\ returned' = "None"
            /\ current_session' = current_session
       /\ pc = "interrupt" =>
            /\ last'.op = "interrupt_answer"
            /\ current_session' = current_session
            /\ IF last'.result # "raised" /\ Lower(last'.input) = <<"y">>
               THEN pc' = "exited"
               ELSE pc' = "prompt" /\ returned' = "None"]_vars

\* Ctrl+C, answered n, with a proposed command in the session: the loop is at
\* its prompt and the record is still there
C21_Witness ==
    /\ last.op = "interrupt_answer"
    /\ last.input = <<"n">>
    /\ pc = "prompt"
    /\ returned = "None"
    /\ IsSession(current_session)
    /\ Len(current_session.commands) = 1
    /\ Last(current_session.commands).prompt = PromptNo

\* install-integration is invoked while the configuration file holds the marker
InstallOverMarker ==
    /\ pc = "start"
    /\ last'.op = "setup_zsh"
    /\ MarkerCount(zshrc) > 0

\* C22: each install-integration call made while the marker string is in the
\* configuration file leaves the file as it is and reports success.
C22_InstallOverMarkerIsNoOp ==
    [][InstallOverMarker => (zshrc' = zshrc /\ last'.result = "True")]_vars

\* a load went through: the file was read and its commands were listed
LoadSucceeded ==
    /\ pc = "prompt"
    /\ last'.op = "load"
    /\ last'.result = "loaded"

\* a generation went through on a live session that has a commands sequence
GeneratedOnSession ==
    /\ pc = "prompt"
    /\ last'.op = "generate"
    /\ last'.result # "generation raised"
    /\ HasKey(current_session, "commands")

\* C23: a successful load is one step, with no question in between, after which
\* the live session is what the file holds: its commands are the file's, in the
\* file's order, and none of the records the session held before; a record
\* generated later is appended after them.
C23_LoadReplacesSession ==
    [][/\ LoadSucceeded =>
            /\ current_session' = SafeLoad(history[last'.text])
            /\ current_session'.commands = SafeLoad(history[last'.text]).commands
            /\ pc' = "prompt"
            /\ history' = history
       /\ GeneratedOnSession =>
            /\ Len(current_session'.commands) = Len(current_session.commands) + 1
            /\ SubSeq(current_session'.commands, 1, Len(current_session.commands))
                   = current_session.commands
            /\ Last(current_session'.commands).prompt = last'.input]_vars

\* a stored session was loaded and a record was generated after its record
C23_Witness ==
    /\ last.op = "generate"
    /\ last.result = "proposed"
    /\ Len(current_session.commands) = 2
    /\ current_session.commands[1] = StoredSession.commands[1]
    /\ current_session.commands[2].prompt = PromptNo

\* the step is a decision to run: --execute, y at a single-shot menu or at
\* "Also run the command?", r at an interactive menu
RunDecision ==
    \/ last'.op = "auto_execute" /\ args.execute = "True"
    \/ /\ last'.op \in {"main_choice", "main_sub_choice", "main_followup"}
       /\ Lower(last'.input) = <<"y">>
    \/ /\ last'.op \in {"choice", "sub_choice"}
       /\ Lower(last'.input) = <<"r">>

\* the text of the command under review: the edited text once it was edited
CurrentText == IF pc \in {"edited_menu", "edited"} THEN edited_command ELSE bash_command'

\* C24: execute_command is called only in a step that is a decision to run, once
\* in that step and with the current text of the command, and that step ends
\* the review of the command; no other step (buffer, copy, the answer n to the
\* follow-up, cancel, --no-execute, an invalid input) executes anything.
C24_ExecutedOnlyOnRunDecision ==
    [][/\ executions' # executions =>
            /\ RunDecision
            /\ executions' = Append(executions, [command |-> CurrentText, exit |-> last'.exit])
            /\ pc' \in {"exited", "prompt"}
       /\ (RunDecision /\ pc # "exited") => Len(executions') = Len(executions) + 1]_vars

\* single-shot: the command was edited and y was answered: the edited text, and
\* nothing else, was executed
C24_Witness ==
    /\ last.op = "main_sub_choice"
    /\ last.input = <<"Y">>
    /\ bash_command = CmdLs
    /\ executions = <<[command |-> EditedText, exit |-> "zero"]>>
    /\ pc = "exited"

\* a step of the exit / quit iteration, taken on a live session that is a
\* Session: the line itself, the answer to "Save session before exiting?", the
\* session name and the save
ExitStep ==
    /\ IsSession(current_session)
    /\ \/ pc = "prompt" /\ last'.op = "exit"
       \/ pc = "exit_confirm" /\ last'.op = "exit_confirm"
       \/ pc = "exit_name" /\ last'.op = "exit_name"

\* C25: once exit or quit is entered the loop ends in that iteration: each step
\* of the iteration either asks the next question of the exit dialogue or ends
\* the loop, whatever is answered and whether or not the save goes through; the
\* loop is never back at its prompt.
C25_ExitAlwaysEndsLoop ==
    [][ExitStep => pc' \in {"exit_confirm", "exit_name", "exited"}]_vars


====
